---- MODULE Spec2Model ----
(***************************************************************************)
(* A model of the liquidity Manager (liquidity/liquidity.go) and of the    *)
(* hop hint selection (SelectHopHints) of the loop client.                 *)
(*                                                                         *)
(* Memory is modelled explicitly where the code shares it: a Parameters    *)
(* struct is a record whose ChannelRules field is the address of a map     *)
(* object in mapHeap, and a map entry is the address of a ThresholdRule    *)
(* object in ruleHeap.  An object allocated on behalf of a holder (the     *)
(* Manager, the caller's own value, the value GetParameters returned) is   *)
(* named after that holder and the map key; objects no longer referenced   *)
(* are reclaimed, so a name is reused only for a fresh object.             *)
(***************************************************************************)
EXTENDS Integers, Sequences, FiniteSets, TLC

\* ---------------------------------------------------------------- bounds
\* Clock readings and swap update times range over 0..MaxTime.
MaxTime == 2

\* The swap listings hold up to MaxSwaps records.
MaxSwaps == 2

\* SelectHopHints is asked for up to MaxHints hints, over up to MaxChans
\* channels.
MaxHints == 2
MaxChans == 2

\* ------------------------------------------------------ program constants
AbsoluteFeePerKwFloor == 250
defaultSweepFeeRateLimit == 750
defaultFailureBackoff == 24
DefaultSweepConfTarget == 9
MinimumConfirmations == 2
FeeBase == 1000000
defaultSwapFeePPM == 5000
defaultRoutingFeePPM == 10000
defaultPrepayRoutingFeePPM == 5000
defaultMaximumMinerFee == 15000
defaultMaximumPrepay == 30000

\* ----------------------------------------------------------------- values
\* Short channel ids; 0 is the zero channel id.
ChanIDs == {0, 1, 2}

\* A ThresholdRule: minimum incoming and outgoing liquidity, in percent of
\* the channel's capacity.
Rule(inc, out) == [MinimumIncoming |-> inc, MinimumOutgoing |-> out]

\* The content of a heap cell that holds no rule object.
NoRule == Rule(-1, -1)

\* The rules callers use: two valid ones and one that fails validation.
Rules == {Rule(40, 0), Rule(0, 0), Rule(60, 60)}

\* Addresses of map objects ("nil" is Go's nil map) and of rule objects.
Holders == {"manager", "caller", "result"}
MapAddrs == Holders \cup {"nil"}
RuleAddrs == Holders \X ChanIDs

\* The empty map.
EmptyMap == [c \in {} |-> <<"manager", 0>>]

\* A Parameters struct.
ParametersOf(backoff, limit, conf, rules) ==
    [FailureBackOff |-> backoff, SweepFeeRateLimit |-> limit,
     SweepConfTarget |-> conf, ChannelRules |-> rules]

\* The zero value of the Parameters struct: what a variable of the type holds
\* before it is assigned.
ZeroParameters == ParametersOf(0, 0, 0, "nil")

\* defaultParameters, with its rule map allocated at the Manager's name.
defaultParameters ==
    ParametersOf(defaultFailureBackoff, defaultSweepFeeRateLimit,
                 DefaultSweepConfTarget, "manager")

VARIABLES
    \* Manager and callers
    params,       \* m.params
    paramsLock,   \* m.paramsLock: "unlocked" or the name of its holder
    mapHeap,      \* map objects: address -> (channel id -> rule address)
    ruleHeap,     \* rule objects: address -> ThresholdRule
    callerP,      \* the Parameters value a caller builds and passes in
    got,          \* the Parameters value GetParameters last returned
    setErr,       \* the error SetParameters last returned
    lastSet       \* history: the value of the parameters last committed

storeVars == <<params, paramsLock, mapHeap, ruleHeap, callerP, got, setErr, lastSet>>

VARIABLES
    \* one SuggestSwaps call
    pc,              \* where the call stands ("idle": no call in progress)
    estimate,        \* the fee estimate EstimateFee returned
    outRestrictions, \* the restrictions LoopOutRestrictions returned
    loopOut,         \* the swaps ListLoopOut returned
    loopIn,          \* the swaps ListLoopIn returned
    now,             \* the reading of cfg.Clock.Now()
    channels,        \* the channels ListChannels returned
    eligible,        \* what getEligibleChannels returned
    suggestions,     \* the requests the call returns
    retErr,          \* the error the call returns
    calls,           \* history: the backend calls made, each with its outcome
    used             \* history: the values of m.params the call has read so far

cycleVars == <<pc, estimate, outRestrictions, loopOut, loopIn, now, channels,
               eligible, suggestions, retErr, calls, used>>

VARIABLES
    \* one SelectHopHints call
    hpc,                \* where a SelectHopHints call stands ("idle": none)
    amtMSat,            \* the call's arguments
    numMaxHophints,
    include_nodes,
    openChannels,       \* the channels ListChannels returned
    idx,                \* the index of the channel the current loop is at
    chanInfo,           \* the chanInfo declared before the first loop
    hopHints,
    hopHintChans,
    totalHintBandwidth,
    hintsRet            \* how the call ended, with the error if it returned one

hintVars == <<hpc, amtMSat, numMaxHophints, include_nodes, openChannels, idx,
              chanInfo, hopHints, hopHintChans, totalHintBandwidth, hintsRet>>

\* The value a Parameters struct denotes in heap (mh, rh): its fields, with
\* the rule map read through its pointers.
Deref(p, mh, rh) ==
    [p EXCEPT !.ChannelRules =
        [c \in DOMAIN mh[p.ChannelRules] |-> rh[mh[p.ChannelRules][c]]]]

Value(p) == Deref(p, mapHeap, ruleHeap)

\* ------------------------------------------------------------ validation
NoError == "nil"
ErrZeroChannelID == "zero channel ID not allowed"
ErrInvalidRule == "channel has invalid rule"
ErrInvalidSweepFeeRateLimit == "sweep fee rate limit must be > floor"
ErrConfTarget == "confirmation target must be at least minConfs"

\* ThresholdRule.validate.
ruleValidate(rule) ==
    /\ rule.MinimumIncoming >= 0 /\ rule.MinimumIncoming <= 100
    /\ rule.MinimumOutgoing >= 0 /\ rule.MinimumOutgoing <= 100
    /\ rule.MinimumIncoming + rule.MinimumOutgoing < 100

\* Parameters.validate on the value p: the set of errors the call may return.
\* The rule map is ranged over in Go's unspecified map order, so the error of
\* any offending entry can be the one returned.
validate(p, minConfs) ==
    LET bad == {c \in DOMAIN p.ChannelRules :
                    c = 0 \/ ~ruleValidate(p.ChannelRules[c])}
    IN  IF bad # {}
        THEN {IF c = 0 THEN ErrZeroChannelID ELSE ErrInvalidRule : c \in bad}
        ELSE IF p.SweepFeeRateLimit < AbsoluteFeePerKwFloor
        THEN {ErrInvalidSweepFeeRateLimit}
        ELSE IF p.SweepConfTarget < minConfs THEN {ErrConfTarget}
        ELSE {NoError}

\* ---------------------------------------------------------------- cloning
\* cloneParameters(p) with the copy allocated at holder dst, in heap (mh, rh):
\* the copied struct and the heap after the allocation.
cloneSharesRules(p, dst, mh, rh) ==
    [paramCopy |-> [p EXCEPT !.ChannelRules = dst],
     mapHeap   |-> [mh EXCEPT ![dst] = mh[p.ChannelRules]],
     ruleHeap  |-> rh]

cloneParameters(p, dst, mh, rh) ==
    LET src == mh[p.ChannelRules]
    IN  [paramCopy |-> [p EXCEPT !.ChannelRules = dst],
         mapHeap   |-> [mh EXCEPT ![dst] = [c \in DOMAIN src |-> <<dst, c>>]],
         ruleHeap  |-> [a \in RuleAddrs |->
                          IF a[1] = dst
                          THEN IF a[2] \in DOMAIN src THEN rh[src[a[2]]] ELSE NoRule
                          ELSE rh[a]]]

\* ------------------------------------------------------------ the callers
\* A caller builds the Parameters value v (a rule map and its rules, freshly
\* allocated) in its own variable.
CallerBuild(v) ==
    /\ callerP' = [v EXCEPT !.ChannelRules = "caller"]
    /\ mapHeap' = [mapHeap EXCEPT !["caller"] =
                      [c \in DOMAIN v.ChannelRules |-> <<"caller", c>>]]
    /\ ruleHeap' = [a \in RuleAddrs |->
                      IF a[1] = "caller"
                      THEN IF a[2] \in DOMAIN v.ChannelRules
                           THEN v.ChannelRules[a[2]] ELSE NoRule
                      ELSE ruleHeap[a]]
    /\ UNCHANGED <<params, paramsLock, got, setErr, lastSet, cycleVars, hintVars>>

\* The struct a holder's variable holds.
Held(h) == IF h = "caller" THEN callerP ELSE got

\* rules[c] = &rule: the holder stores a new rule object under key c of the
\* map its struct points to (a write to a nil map panics and changes nothing).
CallerPutRule(h, c, rule) ==
    LET m == Held(h).ChannelRules
    IN  /\ m # "nil"
        /\ mapHeap' = [mapHeap EXCEPT ![m] =
                          [k \in DOMAIN @ \cup {c} |->
                              IF k = c THEN <<h, c>> ELSE @[k]]]
        /\ ruleHeap' = [ruleHeap EXCEPT ![<<h, c>>] = rule]
        /\ UNCHANGED <<params, paramsLock, callerP, got, setErr, lastSet, cycleVars, hintVars>>

\* delete(rules, c).
CallerDeleteRule(h, c) ==
    LET m == Held(h).ChannelRules
    IN  /\ m # "nil"
        /\ c \in DOMAIN mapHeap[m]
        /\ mapHeap' = [mapHeap EXCEPT ![m] =
                          [k \in DOMAIN @ \ {c} |-> @[k]]]
        /\ ruleHeap' = IF mapHeap[m][c] = <<h, c>>
                       THEN [ruleHeap EXCEPT ![<<h, c>>] = NoRule]
                       ELSE ruleHeap
        /\ UNCHANGED <<params, paramsLock, callerP, got, setErr, lastSet, cycleVars, hintVars>>

\* *rules[c] = rule: the holder overwrites the rule object key c points to.
CallerWriteRule(h, c, rule) ==
    LET m == Held(h).ChannelRules
    IN  /\ m # "nil"
        /\ c \in DOMAIN mapHeap[m]
        /\ ruleHeap' = [ruleHeap EXCEPT ![mapHeap[m][c]] = rule]
        /\ UNCHANGED <<params, paramsLock, mapHeap, callerP, got, setErr, lastSet, cycleVars, hintVars>>

\* ------------------------------------------------------- the ParameterStore
\* paramsLock can be taken.
lockNotChecked == TRUE

lockFree == paramsLock = "unlocked"

\* Manager.GetParameters: lock, clone, unlock.
GetParameters ==
    /\ lockFree
    /\ LET c == cloneParameters(params, "result", mapHeap, ruleHeap)
       IN  /\ got' = c.paramCopy
           /\ mapHeap' = c.mapHeap
           /\ ruleHeap' = c.ruleHeap
    /\ UNCHANGED <<params, paramsLock, callerP, setErr, lastSet, cycleVars, hintVars>>

\* Manager.SetParameters(callerP): validate; on an error return it; otherwise
\* lock, store a clone, unlock.
SetParametersCommitsFirst ==
    \E err \in validate(Value(callerP), MinimumConfirmations) :
        /\ lockFree
        /\ LET c == cloneParameters(callerP, "manager", mapHeap, ruleHeap)
           IN  /\ params' = c.paramCopy
               /\ mapHeap' = c.mapHeap
               /\ ruleHeap' = c.ruleHeap
        /\ setErr' = err
        /\ lastSet' = IF err = NoError THEN Value(callerP) ELSE lastSet
        /\ UNCHANGED <<paramsLock, callerP, got, cycleVars, hintVars>>

SetParameters ==
    \E err \in validate(Value(callerP), MinimumConfirmations) :
        IF err # NoError
        THEN /\ setErr' = err
             /\ UNCHANGED <<params, paramsLock, mapHeap, ruleHeap, callerP, got, lastSet, cycleVars, hintVars>>
        ELSE /\ lockFree
             /\ LET c == cloneParameters(callerP, "manager", mapHeap, ruleHeap)
                IN  /\ params' = c.paramCopy
                    /\ mapHeap' = c.mapHeap
                    /\ ruleHeap' = c.ruleHeap
             /\ setErr' = NoError
             /\ lastSet' = Value(callerP)
             /\ UNCHANGED <<paramsLock, callerP, got, cycleVars, hintVars>>

\* NewManager, and callers that hold nothing yet.
InitStore ==
    /\ params = defaultParameters
    /\ paramsLock = "unlocked"
    /\ mapHeap = [a \in MapAddrs |-> EmptyMap]
    /\ ruleHeap = [a \in RuleAddrs |-> NoRule]
    /\ callerP = ZeroParameters
    /\ got = ZeroParameters
    /\ setErr = NoError
    /\ lastSet = Deref(defaultParameters, [a \in MapAddrs |-> EmptyMap],
                       [a \in RuleAddrs |-> NoRule])

\* ------------------------------------------------------------ swap records
\* loopdb.SwapState.Type: a swap that is initiated, has published its htlc or
\* revealed its preimage, or has failed temporarily, is pending.
StateType(state) ==
    IF state \in {"StateInitiated", "StatePreimageRevealed", "StateHtlcPublished",
                  "StateInvoiceSettled", "StateFailTemporary"}
    THEN "StateTypePending"
    ELSE IF state = "StateSuccess" THEN "StateTypeSuccess" ELSE "StateTypeFail"

\* A loop out record: its state, its contract's OutgoingChanSet and the time
\* of its last update.
LoopOut(state, chanSet, lastUpdate) ==
    [State |-> state, OutgoingChanSet |-> chanSet, LastUpdate |-> lastUpdate]

\* A loop in record: its state and its contract's LastHop ("nil": not set).
LoopIn(state, lastHop) == [State |-> state, LastHop |-> lastHop]

\* lndclient.ChannelInfo, the fields read here.
ChannelInfo(id, peer, localBal, remoteBal, capacity) ==
    [ChannelID |-> id, PubKeyBytes |-> peer, LocalBalance |-> localBal,
     RemoteBalance |-> remoteBal, Capacity |-> capacity]

Range(s) == {s[i] : i \in DOMAIN s}

\* ------------------------------------------------------------- suggestions
\* newBalances: the balance descriptor of a channel.
newBalances(info) ==
    [capacity |-> info.Capacity, incoming |-> info.RemoteBalance,
     outgoing |-> info.LocalBalance, channelID |-> info.ChannelID]

\* The amount a rule asks to loop out of a channel: none while incoming
\* liquidity is at its minimum or outgoing liquidity is not above its own;
\* otherwise what brings incoming liquidity to the midpoint of the range the
\* rule allows.
loopOutSwapAmount(balance, rule) ==
    LET incomingPct == (balance.incoming * 100) \div balance.capacity
        outgoingPct == (balance.outgoing * 100) \div balance.capacity
        midpoint    == (rule.MinimumIncoming + (100 - rule.MinimumOutgoing)) \div 2
    IN  IF incomingPct >= rule.MinimumIncoming \/ outgoingPct <= rule.MinimumOutgoing
        THEN 0
        ELSE (balance.capacity * midpoint) \div 100 - balance.incoming

\* ThresholdRule.suggestSwap: no recommendation (the empty sequence) or one,
\* its amount held within the server's restrictions.
suggestSwap(rule, balance, restrictions) ==
    LET amount == loopOutSwapAmount(balance, rule)
    IN  IF amount < restrictions.Minimum THEN <<>>
        ELSE IF amount > restrictions.Maximum
        THEN <<[Amount |-> restrictions.Maximum, Channel |-> balance.channelID]>>
        ELSE <<[Amount |-> amount, Channel |-> balance.channelID]>>

\* ppmToSat: amounts are far below 2^64 / ppm here, so the code's uint64
\* product does not wrap.
ppmToSat(amount, ppm) == (amount * ppm) \div FeeBase

\* Manager.makeLoopOutRequest, with the stored parameters' value p.
makeLoopOutRequest(suggestion, p) ==
    [Amount              |-> suggestion.Amount,
     OutgoingChanSet     |-> <<suggestion.Channel>>,
     MaxPrepayRoutingFee |-> ppmToSat(defaultMaximumPrepay, defaultPrepayRoutingFeePPM),
     MaxSwapRoutingFee   |-> ppmToSat(suggestion.Amount, defaultRoutingFeePPM),
     MaxMinerFee         |-> defaultMaximumMinerFee,
     MaxSwapFee          |-> ppmToSat(suggestion.Amount, defaultSwapFeePPM),
     MaxPrepayAmount     |-> defaultMaximumPrepay,
     SweepConfTarget     |-> p.SweepConfTarget]

\* The loop of SuggestSwaps over the eligible channels: the requests for the
\* channels that have a rule and for which the rule recommends a swap, in the
\* channels' order.
RECURSIVE suggestionsFor(_, _, _)
suggestionsFor(chans, p, restrictions) ==
    IF chans = <<>> THEN <<>>
    ELSE LET channel == Head(chans)
             rest    == suggestionsFor(Tail(chans), p, restrictions)
         IN  IF channel.ChannelID \notin DOMAIN p.ChannelRules THEN rest
             ELSE LET suggestion ==
                          suggestSwap(p.ChannelRules[channel.ChannelID],
                                      newBalances(channel), restrictions)
                  IN  IF suggestion = <<>> THEN rest
                      ELSE <<makeLoopOutRequest(suggestion[1], p)>> \o rest

\* ------------------------------------------------------ getEligibleChannels
\* failedAt.After(failureCutoff).
AfterOrAt(failedAt, failureCutoff) == failedAt >= failureCutoff

After(failedAt, failureCutoff) == failedAt > failureCutoff

\* The keys of failedOut after the loop over the loop out swaps: the channels
\* of the swaps that failed off chain after the cutoff.
failedOutOf(swaps, failureCutoff) ==
    {id \in ChanIDs : \E i \in DOMAIN swaps :
        /\ swaps[i].State = "StateFailOffchainPayments"
        /\ After(swaps[i].LastUpdate, failureCutoff)
        /\ id \in Range(swaps[i].OutgoingChanSet)}

\* The keys of existingOut: the channels of the pending loop out swaps.
existingOutIgnoresTemporary(swaps) ==
    {id \in ChanIDs : \E i \in DOMAIN swaps :
        /\ swaps[i].State = "StateInitiated"
        /\ id \in Range(swaps[i].OutgoingChanSet)}

existingOutOf(swaps) ==
    {id \in ChanIDs : \E i \in DOMAIN swaps :
        /\ StateType(swaps[i].State) = "StateTypePending"
        /\ id \in Range(swaps[i].OutgoingChanSet)}

\* The keys of existingIn: the last hops of the pending loop in swaps.
existingInOf(swaps) ==
    {swaps[i].LastHop : i \in {j \in DOMAIN swaps :
        StateType(swaps[j].State) = "StateTypePending"}}

\* The loops return early (no channels, no error) on a pending loop out with
\* no outgoing channel set, or a pending loop in with no last hop.
unrestrictedOutOnly(outs, ins) ==
    \E i \in DOMAIN outs :
        /\ StateType(outs[i].State) = "StateTypePending"
        /\ Len(outs[i].OutgoingChanSet) = 0

unrestricted(outs, ins) ==
    \/ \E i \in DOMAIN outs :
          /\ StateType(outs[i].State) = "StateTypePending"
          /\ Len(outs[i].OutgoingChanSet) = 0
    \/ \E i \in DOMAIN ins :
          /\ StateType(ins[i].State) = "StateTypePending"
          /\ ins[i].LastHop = "nil"

\* The filter over the listed channels.
eligibleOf(chans, failedOut, existingOut, existingIn) ==
    SelectSeq(chans, LAMBDA channel :
        /\ channel.ChannelID \notin failedOut
        /\ channel.ChannelID \notin existingOut
        /\ channel.PubKeyBytes \notin existingIn)

\* -------------------------------------------------------------- SuggestSwaps
ErrEstimateFee == "EstimateFee failed"
ErrRestrictions == "LoopOutRestrictions failed"
ErrListLoopOut == "ListLoopOut failed"
ErrListLoopIn == "ListLoopIn failed"
ErrListChannels == "ListChannels failed"

\* What a backend call can answer, given the values it can return: one of the
\* values, or an error (a failure, or the cancellation of its context) and
\* the zero value.
Answers(values, zero) ==
    {[err |-> FALSE, val |-> v] : v \in values} \cup {[err |-> TRUE, val |-> zero]}

\* The values of the locals before they are assigned.
NoRestrictions == [Minimum |-> 0, Maximum |-> 0]

InitCycle ==
    /\ pc = "idle"
    /\ estimate = 0
    /\ outRestrictions = NoRestrictions
    /\ loopOut = <<>>
    /\ loopIn = <<>>
    /\ now = 0
    /\ channels = <<>>
    /\ eligible = <<>>
    /\ suggestions = <<>>
    /\ retErr = NoError
    /\ calls = <<>>
    /\ used = {}

\* return requests, err (the deferred Unlock runs in SuggestSwapsReturn).
Return(requests, err) ==
    /\ pc' = "return"
    /\ suggestions' = requests
    /\ retErr' = err

\* Lock, and go on to the fee estimate whatever the rules are.
SuggestSwapsBeginSkipsRuleCheck ==
    /\ UNCHANGED hintVars
    /\ pc = "idle"
    /\ lockFree
    /\ paramsLock' = "SuggestSwaps"
    /\ pc' = "EstimateFee"
    /\ UNCHANGED <<suggestions, retErr>>
    /\ UNCHANGED <<params, mapHeap, ruleHeap, callerP, got, setErr, lastSet>>
    /\ used' = {Value(params)}
    /\ UNCHANGED <<estimate, outRestrictions, loopOut, loopIn, now, channels,
                   eligible, calls>>

\* Lock; with no rules set, return at once.
SuggestSwapsBegin ==
    /\ UNCHANGED hintVars
    /\ pc = "idle"
    /\ lockFree
    /\ paramsLock' = "SuggestSwaps"
    /\ IF DOMAIN Value(params).ChannelRules = {}
       THEN Return(<<>>, NoError)
       ELSE /\ pc' = "EstimateFee"
            /\ UNCHANGED <<suggestions, retErr>>
    /\ UNCHANGED <<params, mapHeap, ruleHeap, callerP, got, setErr, lastSet>>
    /\ used' = {Value(params)}
    /\ UNCHANGED <<estimate, outRestrictions, loopOut, loopIn, now, channels,
                   eligible, calls>>

\* estimate > m.params.SweepFeeRateLimit.
exceedsOrMeets(est, limit) == est >= limit

exceeds(est, limit) == est > limit

\* cfg.Lnd.WalletKit.EstimateFee(ctx, m.params.SweepConfTarget) answers r,
\* and the check of the estimate against the limit.
EstimateFee(r) ==
    /\ UNCHANGED hintVars
    /\ pc = "EstimateFee"
    /\ calls' = Append(calls, <<"EstimateFee", IF r.err THEN "err" ELSE "ok">>)
    /\ used' = used \cup {Value(params)}
    /\ IF r.err
       THEN /\ Return(<<>>, ErrEstimateFee)
            /\ UNCHANGED estimate
       ELSE /\ estimate' = r.val
            /\ IF exceeds(r.val, Value(params).SweepFeeRateLimit)
               THEN Return(<<>>, NoError)
               ELSE /\ pc' = "LoopOutRestrictions"
                    /\ UNCHANGED <<suggestions, retErr>>
    /\ UNCHANGED <<storeVars, outRestrictions, loopOut, loopIn, now, channels, eligible>>

\* cfg.LoopOutRestrictions(ctx) answers r.
LoopOutRestrictions(r) ==
    /\ UNCHANGED hintVars
    /\ pc = "LoopOutRestrictions"
    /\ calls' = Append(calls, <<"LoopOutRestrictions", IF r.err THEN "err" ELSE "ok">>)
    /\ IF r.err
       THEN /\ Return(<<>>, ErrRestrictions)
            /\ UNCHANGED outRestrictions
       ELSE /\ outRestrictions' = r.val
            /\ pc' = "ListLoopOut"
            /\ UNCHANGED <<suggestions, retErr>>
    /\ UNCHANGED <<storeVars, estimate, loopOut, loopIn, now, channels, eligible, used>>

\* cfg.ListLoopOut() answers r.
ListLoopOut(r) ==
    /\ UNCHANGED hintVars
    /\ pc = "ListLoopOut"
    /\ calls' = Append(calls, <<"ListLoopOut", IF r.err THEN "err" ELSE "ok">>)
    /\ IF r.err
       THEN /\ Return(<<>>, ErrListLoopOut)
            /\ UNCHANGED loopOut
       ELSE /\ loopOut' = r.val
            /\ pc' = "ListLoopIn"
            /\ UNCHANGED <<suggestions, retErr>>
    /\ UNCHANGED <<storeVars, estimate, outRestrictions, loopIn, now, channels, eligible, used>>

\* cfg.ListLoopIn() answers r.
ListLoopInIgnoresError(r) ==
    /\ UNCHANGED hintVars
    /\ pc = "ListLoopIn"
    /\ calls' = Append(calls, <<"ListLoopIn", IF r.err THEN "err" ELSE "ok">>)
    /\ loopIn' = r.val
    /\ pc' = "getEligibleChannels"
    /\ UNCHANGED <<suggestions, retErr>>
    /\ UNCHANGED <<storeVars, estimate, outRestrictions, loopOut, now, channels, eligible, used>>

ListLoopIn(r) ==
    /\ UNCHANGED hintVars
    /\ pc = "ListLoopIn"
    /\ calls' = Append(calls, <<"ListLoopIn", IF r.err THEN "err" ELSE "ok">>)
    /\ IF r.err
       THEN /\ Return(<<>>, ErrListLoopIn)
            /\ UNCHANGED loopIn
       ELSE /\ loopIn' = r.val
            /\ pc' = "getEligibleChannels"
            /\ UNCHANGED <<suggestions, retErr>>
    /\ UNCHANGED <<storeVars, estimate, outRestrictions, loopOut, now, channels, eligible, used>>

\* getEligibleChannels up to its call of ListChannels: the clock reads t, and
\* the loops over the swaps either find an unrestricted pending swap, and the
\* call returns no channels and SuggestSwaps no suggestions, or go on to list
\* the channels.
GetEligibleChannels(t) ==
    /\ UNCHANGED hintVars
    /\ pc = "getEligibleChannels"
    /\ now' = t
    /\ used' = used \cup {Value(params)}
    /\ IF unrestricted(loopOut, loopIn)
       THEN Return(<<>>, NoError)
       ELSE /\ pc' = "ListChannels"
            /\ UNCHANGED <<suggestions, retErr>>
    /\ UNCHANGED <<storeVars, estimate, outRestrictions, loopOut, loopIn, channels,
                   eligible, calls>>

\* cfg.Lnd.Client.ListChannels(ctx) answers r; the rest of
\* getEligibleChannels filters the channels, and the loop of SuggestSwaps
\* turns the eligible ones into requests.
ListChannels(r) ==
    /\ UNCHANGED hintVars
    /\ pc = "ListChannels"
    /\ calls' = Append(calls, <<"ListChannels", IF r.err THEN "err" ELSE "ok">>)
    /\ IF r.err
       THEN /\ Return(<<>>, ErrListChannels)
            /\ UNCHANGED <<channels, eligible>>
       ELSE LET failureCutoff == now - Value(params).FailureBackOff
                ok == eligibleOf(r.val, failedOutOf(loopOut, failureCutoff),
                                 existingOutOf(loopOut), existingInOf(loopIn))
            IN  /\ channels' = r.val
                /\ eligible' = ok
                /\ Return(suggestionsFor(ok, Value(params), outRestrictions), NoError)
    /\ used' = IF r.err THEN used ELSE used \cup {Value(params)}
    /\ UNCHANGED <<storeVars, estimate, outRestrictions, loopOut, loopIn, now>>

\* The call returns: the deferred Unlock runs and the locals are gone.
SuggestSwapsReturn ==
    /\ UNCHANGED hintVars
    /\ pc = "return"
    /\ paramsLock' = "unlocked"
    /\ pc' = "idle"
    /\ estimate' = 0
    /\ outRestrictions' = NoRestrictions
    /\ loopOut' = <<>>
    /\ loopIn' = <<>>
    /\ now' = 0
    /\ channels' = <<>>
    /\ eligible' = <<>>
    /\ suggestions' = <<>>
    /\ retErr' = NoError
    /\ calls' = <<>>
    /\ used' = {}
    /\ UNCHANGED <<params, mapHeap, ruleHeap, callerP, got, setErr, lastSet>>

\* ----------------------------------------------------- what the backends say
\* The Parameters values callers set while swaps are suggested.
CycleValues ==
    {ParametersOf(1, AbsoluteFeePerKwFloor, 2, (1 :> Rule(40, 0)) @@ (2 :> Rule(40, 0))),
     ParametersOf(2, defaultSweepFeeRateLimit, 3, (1 :> Rule(40, 0))),
     ParametersOf(2, defaultSweepFeeRateLimit, 3, <<>>)}

FeeEstimates == {AbsoluteFeePerKwFloor, defaultSweepFeeRateLimit, defaultSweepFeeRateLimit + 1}

RestrictionValues == {[Minimum |-> 10, Maximum |-> 50], [Minimum |-> 70, Maximum |-> 100]}

Times == 0 .. MaxTime

OutRecords ==
    {LoopOut("StateFailOffchainPayments", cs, t) : cs \in {<<1>>, <<1, 2>>}, t \in Times}
    \cup {LoopOut(st, cs, 0) : st \in {"StateInitiated", "StateFailTemporary"},
                               cs \in {<<>>, <<1>>, <<1, 2>>}}
    \cup {LoopOut(st, <<1>>, 0) : st \in {"StateSuccess", "StateFailTimeout"}}

\* The listings of loop out swaps: any one record, and up to MaxSwaps of the
\* records that decide eligibility against each other.
OutCore ==
    {LoopOut("StateFailOffchainPayments", <<1, 2>>, MaxTime - 1),
     LoopOut("StateFailTemporary", <<2>>, 0),
     LoopOut("StateInitiated", <<>>, 0),
     LoopOut("StateSuccess", <<1>>, 0)}

OutLists ==
    {<<>>} \cup {<<r>> : r \in OutRecords}
    \cup UNION {[1 .. n -> OutCore] : n \in 2 .. MaxSwaps}

InRecords ==
    {LoopIn("StateInitiated", hop) : hop \in {"nil", "A"}}
    \cup {LoopIn("StateSuccess", "A"), LoopIn("StateFailTimeout", "nil")}

InLists ==
    {<<>>} \cup {<<r>> : r \in InRecords}
    \cup {<<LoopIn("StateSuccess", "nil"), LoopIn("StateInitiated", "B")>>}

channel1 == ChannelInfo(1, "A", 90, 10, 100)
channel2 == ChannelInfo(2, "B", 80, 20, 100)

ChannelLists == {<<>>, <<channel1>>, <<channel1, channel2>>, <<channel2, channel1>>}

\* ============================================================ SelectHopHints
\* lndclient.RoutingPolicy, the fields read here, and the nil policy.
RoutingPolicy(feeBase, feeRate, delta) ==
    [FeeBaseMsat |-> feeBase, FeeRateMilliMsat |-> feeRate, TimeLockDelta |-> delta]

NilPolicy == RoutingPolicy(-1, -1, -1)

\* lndclient.ChannelEdge, the fields read here, and the nil edge pointer.
ChannelEdge(point, node1, node2, policy1, policy2) ==
    [ChannelPoint |-> point, Node1 |-> node1, Node2 |-> node2,
     Node1Policy |-> policy1, Node2Policy |-> policy2]

NilEdge == ChannelEdge(0, "nil", "nil", NilPolicy, NilPolicy)

\* zpay32.HopHint. The fee fields are converted to uint32 and the delta to
\* uint16; the fees of the policies here are below 2^31 and convert to
\* themselves.
HopHint(nodeID, channelID, policy) ==
    [NodeID |-> nodeID, ChannelID |-> channelID,
     FeeBaseMSat |-> policy.FeeBaseMsat,
     FeeProportionalMillionths |-> policy.FeeRateMilliMsat,
     CLTVExpiryDelta |-> policy.TimeLockDelta % 65536]

\* The include_nodes argument: nil, or a set of peers.
NilNodes == [isNil |-> TRUE, nodes |-> {}]
Nodes(set) == [isNil |-> FALSE, nodes |-> set]

\* IsPublicNode: no channel in the list with this peer is private.
IsPublicNode(chans, pubKey) ==
    ~\E i \in DOMAIN chans : chans[i].PubKeyBytes = pubKey /\ chans[i].Private

\* FetchChannelEdgesByID with GetChanInfo answering edge, or failing: the
\* function reads the fields of the edge pointer before it looks at the
\* error, and the pointer is nil when the call failed.
FetchChannelEdgesByID(edge, fails) ==
    IF fails
    THEN [panic |-> TRUE, node1 |-> "nil", p1 |-> NilPolicy, p2 |-> NilPolicy]
    ELSE [panic |-> FALSE, node1 |-> edge.Node1,
          p1 |-> edge.Node1Policy, p2 |-> edge.Node2Policy]

\* chanCanBeHopHint for a channel whose graph edge is edge: the policy and the
\* flag it returns, or the panic it ends in.
chanCanBeHopHint(chans, channel, edge, fails) ==
    IF ~IsPublicNode(chans, channel.PubKeyBytes)
    THEN [panic |-> FALSE, policy |-> NilPolicy, ok |-> FALSE]
    ELSE LET fetched == FetchChannelEdgesByID(edge, fails)
         IN  IF fetched.panic
             THEN [panic |-> TRUE, policy |-> NilPolicy, ok |-> FALSE]
             ELSE [panic |-> FALSE,
                   policy |-> IF channel.PubKeyBytes = fetched.node1
                              THEN fetched.p1 ELSE fetched.p2,
                   ok |-> TRUE]

\* ------------------------------------------------ the node's channels, graph
\* A channel as ListChannels describes it to SelectHopHints; ValidKey tells
\* whether btcec.ParsePubKey accepts the peer's key.
HintChannel(id, peer, private, remoteBal, validKey) ==
    [ChannelID |-> id, PubKeyBytes |-> peer, Private |-> private,
     RemoteBalance |-> remoteBal, ValidKey |-> validKey]

HintChannels ==
    {HintChannel(1, "A", FALSE, 150000, TRUE),
     HintChannel(2, "B", FALSE, 80000, TRUE),
     HintChannel(3, "A", TRUE, 150000, TRUE),
     HintChannel(4, "C", TRUE, 150000, TRUE),
     HintChannel(5, "D", FALSE, 150000, FALSE),
     HintChannel(6, "E", FALSE, 150000, TRUE),
     HintChannel(7, "F", FALSE, 150000, TRUE)}

\* The peer of each channel.
PeerOf(id) == (CHOOSE c \in HintChannels : c.ChannelID = id).PubKeyBytes

\* What GetChanInfo answers for each channel id. The peer is node 1 of
\* channels 1 and 6 and node 2 of the others; node 2 has announced no policy
\* for channels 6 and 7.
Graph ==
    [id \in 1 .. 7 |->
        IF id \in {1, 6}
        THEN ChannelEdge(id, PeerOf(id), "self", RoutingPolicy(1000, 1, 40),
                         IF id = 6 THEN NilPolicy ELSE RoutingPolicy(2000, 2, 144))
        ELSE ChannelEdge(id, "self", PeerOf(id), RoutingPolicy(2000, 2, 144),
                         IF id = 7 THEN NilPolicy ELSE RoutingPolicy(1000, 1, 40))]

hopHintFactor == 2

ErrHintListChannels == "ListChannels failed"
ErrGetChanInfo == "GetChanInfo failed"
ErrParsePubKey == "ParsePubKey failed"

\* How a call can end.
Returned(err) == [kind |-> "returned", err |-> err]
Panicked == [kind |-> "panic", err |-> NoError]
Running == [kind |-> "running", err |-> NoError]

InitHints ==
    /\ hpc = "idle"
    /\ amtMSat = 0
    /\ numMaxHophints = 0
    /\ include_nodes = NilNodes
    /\ openChannels = <<>>
    /\ idx = 0
    /\ chanInfo = NilEdge
    /\ hopHints = <<>>
    /\ hopHintChans = {}
    /\ totalHintBandwidth = 0
    /\ hintsRet = Running

\* The call ends: with the hints and no error, with an error and no hints, or
\* in a panic.
HintsEnd(hints, how) ==
    /\ hpc' = "done"
    /\ hopHints' = hints
    /\ hintsRet' = how

\* SelectHopHints(ctx, lnd, amt, maxHints, include) is called.
SelectHopHints(amt, maxHints, include) ==
    /\ hpc = "idle"
    /\ hpc' = "ListChannels"
    /\ amtMSat' = amt
    /\ numMaxHophints' = maxHints
    /\ include_nodes' = include
    /\ UNCHANGED <<openChannels, idx, chanInfo, hopHints, hopHintChans,
                   totalHintBandwidth, hintsRet>>
    /\ UNCHANGED <<storeVars, cycleVars>>

\* lnd.Client.ListChannels(ctx) answers r; the locals are declared.
HintsListChannels(r) ==
    /\ hpc = "ListChannels"
    /\ IF r.err
       THEN /\ HintsEnd(<<>>, Returned(ErrHintListChannels))
            /\ UNCHANGED <<openChannels, idx>>
       ELSE /\ openChannels' = r.val
            /\ idx' = 1
            /\ hpc' = "phase1"
            /\ UNCHANGED <<hopHints, hintsRet>>
    /\ UNCHANGED <<amtMSat, numMaxHophints, include_nodes, chanInfo, hopHintChans,
                   totalHintBandwidth>>
    /\ UNCHANGED <<storeVars, cycleVars>>

\* The first loop is at a channel and goes on to the next.
Phase1Continue ==
    /\ idx' = idx + 1
    /\ UNCHANGED <<hpc, hopHints, hopHintChans, totalHintBandwidth, hintsRet>>

\* One iteration of the first loop, for the channel at idx; fails is the
\* GetChanInfo call of the iteration that fails
\* (0: none does). The chanInfo the iteration assigns is its own: := declares
\* it in the loop's body.
Phase1Step(fails) ==
    /\ hpc = "phase1"
    /\ idx <= Len(openChannels)
    /\ LET channel == openChannels[idx]
           edge    == Graph[channel.ChannelID]
           can     == chanCanBeHopHint(openChannels, channel, edge, fails = 2)
       IN  IF channel.RemoteBalance < amtMSat THEN Phase1Continue
           ELSE IF ~include_nodes.isNil /\ channel.PubKeyBytes \notin include_nodes.nodes
           THEN Phase1Continue
           ELSE IF fails = 1
           THEN HintsEnd(<<>>, Returned(ErrGetChanInfo))
                /\ UNCHANGED <<idx, hopHintChans, totalHintBandwidth>>
           ELSE IF can.panic
           THEN HintsEnd(<<>>, Panicked)
                /\ UNCHANGED <<idx, hopHintChans, totalHintBandwidth>>
           ELSE IF can.policy = NilPolicy \/ ~can.ok THEN Phase1Continue
           ELSE IF fails = 3
           THEN HintsEnd(<<>>, Returned(ErrGetChanInfo))
                /\ UNCHANGED <<idx, hopHintChans, totalHintBandwidth>>
           ELSE IF ~channel.ValidKey
           THEN HintsEnd(<<>>, Returned(ErrParsePubKey))
                /\ UNCHANGED <<idx, hopHintChans, totalHintBandwidth>>
           ELSE IF edge.Node2Policy = NilPolicy
           THEN HintsEnd(<<>>, Panicked)
                /\ UNCHANGED <<idx, hopHintChans, totalHintBandwidth>>
           ELSE /\ hopHints' = Append(hopHints,
                        <<HopHint(channel.PubKeyBytes, channel.ChannelID, edge.Node2Policy)>>)
                /\ hopHintChans' = hopHintChans \cup {edge.ChannelPoint}
                /\ totalHintBandwidth' = totalHintBandwidth + channel.RemoteBalance
                /\ idx' = idx + 1
                /\ UNCHANGED <<hpc, hintsRet>>
    /\ UNCHANGED <<amtMSat, numMaxHophints, include_nodes, openChannels, chanInfo>>
    /\ UNCHANGED <<storeVars, cycleVars>>

\* After the first loop: return if there are enough hints, else go on to the
\* second loop.
Phase1End ==
    /\ hpc = "phase1"
    /\ idx > Len(openChannels)
    /\ IF Len(hopHints) >= numMaxHophints
       THEN /\ HintsEnd(hopHints, Returned(NoError))
            /\ UNCHANGED idx
       ELSE /\ hpc' = "phase2"
            /\ idx' = 1
            /\ UNCHANGED <<hopHints, hintsRet>>
    /\ UNCHANGED <<amtMSat, numMaxHophints, include_nodes, openChannels, chanInfo,
                   hopHintChans, totalHintBandwidth>>
    /\ UNCHANGED <<storeVars, cycleVars>>

\* The second loop goes on to the next channel.
Phase2Continue ==
    /\ idx' = idx + 1
    /\ UNCHANGED <<hpc, hopHints, totalHintBandwidth, hintsRet>>

\* The early termination conditions of the second loop:
\* totalHintBandwidth > amtMSat*hopHintFactor || len(hopHints) >= numMaxHophints.
earlyTerminationOnCountOnly(bandwidth, amt, count, maxHints) == count >= maxHints

earlyTermination(bandwidth, amt, count, maxHints) ==
    bandwidth > amt * hopHintFactor \/ count >= maxHints

\* One iteration of the second loop (or its end), for the channel at idx;
\* fails tells whether the GetChanInfo call of chanCanBeHopHint fails. The
\* chanInfo read here is the one declared before the first loop.
Phase2Step(fails) ==
    /\ hpc = "phase2"
    /\ IF \/ idx > Len(openChannels)
          \/ earlyTermination(totalHintBandwidth, amtMSat, Len(hopHints),
                              numMaxHophints)
       THEN /\ HintsEnd(hopHints, Returned(NoError))
            /\ UNCHANGED <<idx, totalHintBandwidth>>
       ELSE LET channel == openChannels[idx]
                can     == chanCanBeHopHint(openChannels, channel,
                                            Graph[channel.ChannelID], fails)
            IN  IF chanInfo = NilEdge
                THEN HintsEnd(<<>>, Panicked) /\ UNCHANGED <<idx, totalHintBandwidth>>
                ELSE IF chanInfo.ChannelPoint \in hopHintChans THEN Phase2Continue
                ELSE IF can.panic
                THEN HintsEnd(<<>>, Panicked) /\ UNCHANGED <<idx, totalHintBandwidth>>
                ELSE IF ~can.ok \/ can.policy = NilPolicy THEN Phase2Continue
                ELSE IF ~channel.ValidKey THEN Phase2Continue
                ELSE IF chanInfo.Node2Policy = NilPolicy
                THEN HintsEnd(<<>>, Panicked) /\ UNCHANGED <<idx, totalHintBandwidth>>
                ELSE /\ hopHints' = Append(hopHints,
                            <<HopHint(channel.PubKeyBytes, channel.ChannelID,
                                      chanInfo.Node2Policy)>>)
                     /\ totalHintBandwidth' = totalHintBandwidth + channel.RemoteBalance
                     /\ idx' = idx + 1
                     /\ UNCHANGED <<hpc, hintsRet>>
    /\ UNCHANGED <<amtMSat, numMaxHophints, include_nodes, openChannels, chanInfo,
                   hopHintChans>>
    /\ UNCHANGED <<storeVars, cycleVars>>

\* The caller has the result; the next call starts afresh.
HintsReturn ==
    /\ hpc = "done"
    /\ hpc' = "idle"
    /\ amtMSat' = 0
    /\ numMaxHophints' = 0
    /\ include_nodes' = NilNodes
    /\ openChannels' = <<>>
    /\ idx' = 0
    /\ chanInfo' = NilEdge
    /\ hopHints' = <<>>
    /\ hopHintChans' = {}
    /\ totalHintBandwidth' = 0
    /\ hintsRet' = Running
    /\ UNCHANGED <<storeVars, cycleVars>>

\* ------------------------------------------------------ calls and answers
\* The hint count is 1 .. MaxHints; the channel lists hold up to MaxChans
\* channels, each at most once.
HintAmounts == {100000, 60000}

IncludeSets == {NilNodes, Nodes({"A"}), Nodes({})}

HintChannelLists ==
    {l \in UNION {[1 .. n -> HintChannels] : n \in 0 .. MaxChans} :
        \A i, j \in DOMAIN l : i # j => l[i] # l[j]}


\* ------------------------------------------ the ParameterStore on its own
\* The Parameters values callers of the store build: every combination of a
\* fee limit and a confirmation target at and below their minimum with a rule
\* map over the zero channel id and channel 1.
StoreKeys == {0, 1}

StoreValues ==
    {ParametersOf(1, limit, conf, rules) :
        limit \in {AbsoluteFeePerKwFloor - 1, AbsoluteFeePerKwFloor},
        conf \in {MinimumConfirmations - 1, MinimumConfirmations},
        rules \in UNION {[K -> Rules] : K \in SUBSET StoreKeys}}

vars == <<storeVars, cycleVars, hintVars>>

NextStore ==
    \/ \E v \in StoreValues : CallerBuild(v)
    \/ \E h \in {"caller", "result"}, c \in StoreKeys, rule \in Rules :
          CallerPutRule(h, c, rule)
    \/ \E h \in {"caller", "result"}, c \in StoreKeys : CallerDeleteRule(h, c)
    \/ \E h \in {"caller", "result"}, c \in StoreKeys, rule \in Rules :
          CallerWriteRule(h, c, rule)
    \/ SetParameters
    \/ GetParameters

Init == InitStore /\ InitCycle /\ InitHints

SpecStore == Init /\ [][NextStore]_vars

\* ------------------------------------------------------------- the Manager
\* SuggestSwaps calls, one at a time, beside callers that set and get the
\* parameters.
Next ==
    \/ \E v \in CycleValues : CallerBuild(v)
    \/ SetParameters
    \/ GetParameters
    \/ SuggestSwapsBegin
    \/ \E r \in Answers(FeeEstimates, 0) : EstimateFee(r)
    \/ \E r \in Answers(RestrictionValues, NoRestrictions) : LoopOutRestrictions(r)
    \/ \E r \in Answers(OutLists, <<>>) : ListLoopOut(r)
    \/ \E r \in Answers(InLists, <<>>) : ListLoopIn(r)
    \/ \E t \in Times : GetEligibleChannels(t)
    \/ \E r \in Answers(ChannelLists, <<>>) : ListChannels(r)
    \/ SuggestSwapsReturn

Spec == Init /\ [][Next]_vars

\* ------------------------------------------------------- hop hint selection
\* SelectHopHints calls, one at a time.
NextHints ==
    \/ \E amt \in HintAmounts, maxHints \in 1 .. MaxHints, include \in IncludeSets :
          SelectHopHints(amt, maxHints, include)
    \/ \E r \in Answers(HintChannelLists, <<>>) : HintsListChannels(r)
    \/ \E fails \in 0 .. 3 : Phase1Step(fails)
    \/ Phase1End
    \/ \E fails \in BOOLEAN : Phase2Step(fails)
    \/ HintsReturn

SpecHints == Init /\ [][NextHints]_vars

\* ==================================================================== claims

\* The Parameters value v fails validation: it has a rule under the zero
\* channel id, or an invalid rule, or a fee limit below the floor, or a
\* confirmation target below the configured minimum.
C1_FailsValidation(v) ==
    \/ 0 \in DOMAIN v.ChannelRules
    \/ \E c \in DOMAIN v.ChannelRules : ~ruleValidate(v.ChannelRules[c])
    \/ v.SweepFeeRateLimit < AbsoluteFeePerKwFloor
    \/ v.SweepConfTarget < MinimumConfirmations

\* C1: a SetParameters call with a Parameters value that fails validation
\* returns an error and leaves the stored parameters as they were: the struct,
\* the value it denotes, and what a GetParameters that follows returns.
C1_RejectedSetChangesNothing ==
    [][(SetParameters /\ C1_FailsValidation(Value(callerP))) =>
          /\ setErr' # NoError
          /\ params' = params
          /\ Deref(params', mapHeap', ruleHeap') = Value(params)
          /\ LET c == cloneParameters(params', "result", mapHeap', ruleHeap')
             IN  Deref(c.paramCopy, c.mapHeap, c.ruleHeap) = Value(params)]_vars

\* A SetParameters call for a value with a rule under the zero channel id has
\* returned ErrZeroChannelID to a Manager that holds rules set earlier.
C1_Witness ==
    /\ setErr = ErrZeroChannelID
    /\ 0 \in DOMAIN mapHeap[callerP.ChannelRules]
    /\ DOMAIN mapHeap[params.ChannelRules] # {}
    /\ Value(params) = lastSet

\* C2: the stored parameters always denote the value last set (the defaults
\* before any set), whatever callers do to the rule maps and rules they hold,
\* and every GetParameters returns a struct that denotes that value.
C2_GetReturnsIndependentCopy ==
    /\ [](Value(params) = lastSet)
    /\ [][GetParameters => Deref(got', mapHeap', ruleHeap') = lastSet]_vars

\* Rules were set, GetParameters returned them, and since then the caller has
\* changed both the map it passed in and the map it got back.
C2_Witness ==
    /\ DOMAIN lastSet.ChannelRules # {}
    /\ Value(params) = lastSet
    /\ got.ChannelRules = "result"
    /\ got.SweepFeeRateLimit = lastSet.SweepFeeRateLimit
    /\ Value(got).ChannelRules # lastSet.ChannelRules
    /\ Value(callerP).ChannelRules # lastSet.ChannelRules

\* The swap states that count as pending.
ClaimPending(state) ==
    state \in {"StateInitiated", "StatePreimageRevealed", "StateHtlcPublished",
               "StateInvoiceSettled", "StateFailTemporary"}

\* Channel id is in the channel set of a listed loop out swap that failed off
\* chain less than FailureBackOff before the clock reading.
ClaimBackedOff(id) ==
    \E i \in DOMAIN loopOut :
        /\ loopOut[i].State = "StateFailOffchainPayments"
        /\ id \in Range(loopOut[i].OutgoingChanSet)
        /\ now - Value(params).FailureBackOff < loopOut[i].LastUpdate

\* A listed pending swap holds the channel: a loop out names it, or a loop in
\* names its peer as last hop.
ClaimHeld(channel) ==
    \/ \E i \in DOMAIN loopOut :
          /\ ClaimPending(loopOut[i].State)
          /\ channel.ChannelID \in Range(loopOut[i].OutgoingChanSet)
    \/ \E i \in DOMAIN loopIn :
          /\ ClaimPending(loopIn[i].State)
          /\ channel.PubKeyBytes = loopIn[i].LastHop

\* The call has listed the channels and is about to return.
ClaimListed ==
    /\ pc = "return"
    /\ Len(calls) = 5
    /\ calls[5] = <<"ListChannels", "ok">>

\* The channels the returned requests target.
ClaimTargets == UNION {Range(suggestions[i].OutgoingChanSet) : i \in DOMAIN suggestions}

\* C3: no returned request targets a channel of a loop out swap that failed
\* off chain at T while now - FailureBackOff < T, and no such channel is
\* eligible, whichever channel of the set it is; a listed channel whose
\* failures all lie at or before now - FailureBackOff, and which no pending
\* swap holds, is eligible.
C3_FailureBackOff ==
    pc = "return" =>
        /\ \A id \in ChanIDs : ClaimBackedOff(id) => id \notin ClaimTargets
        /\ ClaimListed =>
              \A j \in DOMAIN channels :
                  /\ ClaimBackedOff(channels[j].ChannelID) =>
                        channels[j] \notin Range(eligible)
                  /\ ( /\ \E i \in DOMAIN loopOut :
                             /\ loopOut[i].State = "StateFailOffchainPayments"
                             /\ channels[j].ChannelID \in Range(loopOut[i].OutgoingChanSet)
                       /\ ~ClaimBackedOff(channels[j].ChannelID)
                       /\ ~ClaimHeld(channels[j]) ) =>
                        channels[j] \in Range(eligible)

\* Both channels have a rule and are listed, a swap over both failed off chain
\* within the backoff, and neither channel is eligible.
C3_Witness ==
    /\ ClaimListed
    /\ DOMAIN Value(params).ChannelRules = {1, 2}
    /\ Range(channels) = {channel1, channel2}
    /\ \E i \in DOMAIN loopOut :
          /\ loopOut[i].State = "StateFailOffchainPayments"
          /\ loopOut[i].OutgoingChanSet = <<1, 2>>
          /\ now - Value(params).FailureBackOff < loopOut[i].LastUpdate
    /\ eligible = <<>>

\* C4: with a pending loop out swap that has no outgoing channel set, or a
\* pending loop in swap that has no last hop, among the listed swaps,
\* SuggestSwaps returns no suggestion.
C4_UnrestrictedSwapNoSuggestions ==
    ( /\ pc = "return"
      /\ \/ \E i \in DOMAIN loopOut :
               ClaimPending(loopOut[i].State) /\ loopOut[i].OutgoingChanSet = <<>>
         \/ \E i \in DOMAIN loopIn :
               ClaimPending(loopIn[i].State) /\ loopIn[i].LastHop = "nil" )
    => suggestions = <<>>

\* Rules are set, every listing succeeded, and a temporarily failed loop out
\* with no outgoing channel set made the call return.
C4_Witness ==
    /\ pc = "return"
    /\ retErr = NoError
    /\ Len(calls) = 4
    /\ DOMAIN Value(params).ChannelRules # {}
    /\ \E i \in DOMAIN loopOut :
          loopOut[i].State = "StateFailTemporary" /\ loopOut[i].OutgoingChanSet = <<>>

\* C5: no returned request targets a channel that a listed pending swap holds
\* (a loop out by its channel set, a loop in by its last hop); a listed channel
\* that only swaps in a terminal state refer to, and that is not backed off,
\* is eligible.
C5_PendingSwapsHoldChannels ==
    pc = "return" =>
        /\ \A j \in DOMAIN channels :
              ClaimHeld(channels[j]) => channels[j].ChannelID \notin ClaimTargets
        /\ \A i \in DOMAIN loopOut :
              ClaimPending(loopOut[i].State) =>
                  Range(loopOut[i].OutgoingChanSet) \cap ClaimTargets = {}
        /\ ClaimListed =>
              \A j \in DOMAIN channels :
                  channels[j] \notin Range(eligible) =>
                      ClaimHeld(channels[j]) \/ ClaimBackedOff(channels[j].ChannelID)

\* A temporarily failed loop out holds one of two listed channels, and the
\* call returns a request for the other.
C5_Witness ==
    /\ ClaimListed
    /\ Len(channels) = 2
    /\ \E i \in DOMAIN loopOut : loopOut[i].State = "StateFailTemporary"
    /\ \E j \in DOMAIN channels : ClaimHeld(channels[j])
    /\ Len(suggestions) = 1

\* C6: right after a fee estimate was returned, the call returns no
\* suggestion and no error if the estimate exceeds SweepFeeRateLimit, and goes
\* on to query the restrictions if it does not (an estimate equal to the limit
\* included).
C6_FeeLimitBreaker ==
    calls = <<<<"EstimateFee", "ok">>>> =>
        IF estimate > Value(params).SweepFeeRateLimit
        THEN pc = "return" /\ suggestions = <<>> /\ retErr = NoError
        ELSE pc = "LoopOutRestrictions"

\* The estimate exceeded the limit and the call returns.
C6_Witness ==
    /\ calls = <<<<"EstimateFee", "ok">>>>
    /\ estimate > Value(params).SweepFeeRateLimit
    /\ pc = "return"

\* The error SuggestSwaps returns when a backend call fails.
ClaimErrorOf(call) ==
    CASE call = "EstimateFee" -> ErrEstimateFee
      [] call = "LoopOutRestrictions" -> ErrRestrictions
      [] call = "ListLoopOut" -> ErrListLoopOut
      [] call = "ListLoopIn" -> ErrListLoopIn
      [] call = "ListChannels" -> ErrListChannels

\* C7: once a backend call has failed, the call is returning that call's
\* error and no suggestion; requests are only ever returned without an error.
C7_AllOrNothing ==
    /\ \A i \in DOMAIN calls :
          calls[i][2] = "err" =>
              /\ pc = "return"
              /\ retErr = ClaimErrorOf(calls[i][1])
              /\ suggestions = <<>>
    /\ suggestions # <<>> => (pc = "return" /\ retErr = NoError)

\* The channel listing failed after every other call succeeded.
C7_Witness ==
    /\ pc = "return"
    /\ retErr = ErrListChannels
    /\ Len(calls) = 5
    /\ suggestions = <<>>

\* C8: while a SuggestSwaps call is in progress it holds the lock, no
\* GetParameters and no committing SetParameters can take a step, and every
\* read the call has made of the parameters saw the one value that is stored;
\* the requests carry that value's confirmation target.
C8_LockHeldForTheCycle ==
    pc # "idle" =>
        /\ paramsLock = "SuggestSwaps"
        /\ ~ENABLED GetParameters
        /\ ~ENABLED (SetParameters /\ setErr' = NoError)
        /\ used = {Value(params)}
        /\ \A i \in DOMAIN suggestions :
              suggestions[i].SweepConfTarget = Value(params).SweepConfTarget

\* A call waits for the channel listing while a caller holds valid parameters
\* that differ from the stored ones.
C8_Witness ==
    /\ pc = "ListChannels"
    /\ validate(Value(callerP), MinimumConfirmations) = {NoError}
    /\ Value(callerP) # Value(params)

\* C9: every hint SelectHopHints returns is for a peer that has another
\* channel in the node's channel list, and a public one.
C9_HintedPeerHasOtherPublicChannel ==
    (hpc = "done" /\ hintsRet = Returned(NoError)) =>
        \A i \in DOMAIN hopHints :
            \E j \in DOMAIN openChannels :
                /\ openChannels[j].PubKeyBytes = hopHints[i][1].NodeID
                /\ openChannels[j].ChannelID # hopHints[i][1].ChannelID
                /\ ~openChannels[j].Private

\* C10: SelectHopHints returns at most numMaxHophints hints.
C10_AtMostMaxHints ==
    (hpc = "done" /\ hintsRet = Returned(NoError)) =>
        Len(hopHints) <= numMaxHophints

\* C11: the second loop of SelectHopHints is only entered with fewer than
\* numMaxHophints hints; whenever it stands at the end of the channel list,
\* at an accumulated bandwidth above twice the amount or at the hint count, its
\* next step returns the hints it has, unchanged and without an error; and no
\* step of it adds a hint from such a state.
C11_Phase2Stops ==
    /\ [](hpc = "phase2" => Len(hopHints) < numMaxHophints)
    /\ [][(hpc = "phase2" /\ (\/ idx > Len(openChannels)
                              \/ totalHintBandwidth > amtMSat * 2
                              \/ Len(hopHints) >= numMaxHophints))
            => /\ hpc' = "done"
               /\ hintsRet' = Returned(NoError)
               /\ hopHints' = hopHints]_vars
    /\ [][(hpc = "phase2" /\ hpc' = "done" /\ hintsRet' = Returned(NoError))
            => (\/ idx > Len(openChannels)
                \/ totalHintBandwidth > amtMSat * 2
                \/ Len(hopHints) >= numMaxHophints)]_vars

\* The second loop has ended at a channel it had not looked at yet, with one
\* hint of two asked for and a bandwidth above twice the amount.
C11_Witness ==
    /\ hpc = "done"
    /\ hintsRet = Returned(NoError)
    /\ idx = 1
    /\ Len(openChannels) >= 1
    /\ Len(hopHints) = 1
    /\ numMaxHophints = 2
    /\ totalHintBandwidth > amtMSat * 2

ClaimCounterpartyPolicy(channelID, peer) ==
    IF Graph[channelID].Node1 = peer
    THEN Graph[channelID].Node1Policy
    ELSE Graph[channelID].Node2Policy

\* C13: every hint SelectHopHints returns carries the fee base, the fee rate
\* and the time-lock delta of the policy of the counterparty's side of its
\* channel.
C13_HintCarriesCounterpartyPolicy ==
    (hpc = "done" /\ hintsRet = Returned(NoError)) =>
        \A i \in DOMAIN hopHints :
            hopHints[i][1] =
                HopHint(hopHints[i][1].NodeID, hopHints[i][1].ChannelID,
                        ClaimCounterpartyPolicy(hopHints[i][1].ChannelID,
                                                hopHints[i][1].NodeID))

\* C14: a step of SelectHopHints in which a dependency fails (one that would
\* not be a step of the call had the dependency answered) ends the call with
\* that error and no hints when it is the channel listing, or a GetChanInfo
\* call or the key parsing of the first loop; in the second loop it goes on
\* to the next channel with the hints as they are, and the second loop ends by
\* returning its hints without an error.
C14_HardInPhase1SoftInPhase2 ==
    /\ [][(\E r \in Answers(HintChannelLists, <<>>) : r.err /\ HintsListChannels(r))
            => (hpc' = "done" /\ hintsRet' = Returned(ErrHintListChannels)
                /\ hopHints' = <<>>)]_vars
    /\ [][\A fails \in 1 .. 3 :
             (Phase1Step(fails) /\ ~Phase1Step(0))
             => (hpc' = "done" /\ hintsRet' = Returned(ErrGetChanInfo)
                 /\ hopHints' = <<>>)]_vars
    /\ [][(Phase1Step(0) /\ idx <= Len(openChannels) /\ hpc' = "done"
            /\ ~openChannels[idx].ValidKey)
            => (hintsRet' = Returned(ErrParsePubKey) /\ hopHints' = <<>>)]_vars
    /\ [][(Phase2Step(TRUE) /\ ~Phase2Step(FALSE))
            => (hpc' = "phase2" /\ idx' = idx + 1 /\ hopHints' = hopHints)]_vars
    /\ [][(hpc = "phase2" /\ hpc' = "done")
            => (hintsRet' = Returned(NoError) /\ hopHints' = hopHints)]_vars

\* No step of the second loop adds a hint: its body ends at the read of
\* chanInfo.ChannelPoint, before the checks C15 is about are reached.
Phase2AddsNoHint ==
    [][hpc = "phase2" => (hopHints' = hopHints \/ hopHints' = <<>>)]_vars

\* C16: a call of SelectHopHints ends by returning, a hint list or an error,
\* and never in a dereference of a nil channel edge.
C16_NoAbnormalEnd ==
    hpc = "done" => hintsRet.kind = "returned"

====
